---------------------------- MODULE Spec2Model ----------------------------
(***************************************************************************)
(* Model of easymep.py: one run of main(argv).  Strings are TLA+ strings   *)
(* (sequences of characters); Python's substring test, slicing, split and  *)
(* format are computed on them character by character.                     *)
(***************************************************************************)
EXTENDS Naturals, Sequences, FiniteSets, TLC

VARIABLES
    argv,                  \* the argument list given to main
    pc,                    \* position of main
    options_list,          \* getopt's (option, argument) pairs
    local_path,            \* Path(...) of line 95
    compressed_file_path,  \* value returned by __compress_local_file
    compressed_file_name,  \* 1st argument of __ssh_processing, line 118
    server_path,           \* line 103
    server_name,           \* line 106
    restart_apache,        \* 4th argument of __ssh_processing, line 121
    archive_name,          \* line 217
    new_folder_name,       \* line 218
    exc,                   \* exception in flight ("none" when there is none)
    result,                \* what main ended with
    files,                 \* local file system: the set of existing paths
    scp,                   \* the remote copy: not_run, ok, failed, not_started
    session,               \* ssh_pipe: unopened, open, closed
    written,               \* the lines written to ssh_pipe.stdin, in order
    flushed,               \* ssh_pipe.stdin.flush() has returned
    removed,               \* os.remove of line 124 has returned
    today,                 \* the calendar date, <<day, month, year>>
    ticks,                 \* number of midnights passed during the run
    raised_at,             \* the position of main where the exception was raised
    remote,                \* the server directory, when the host is observed
    rsh,                   \* the remote end of ssh_pipe: lines received and run
    other                  \* a second invocation of the script, on another machine

vars == <<argv, pc, options_list, local_path, compressed_file_path,
          compressed_file_name, server_path,
          server_name, restart_apache, archive_name, new_folder_name, exc,
          result, files, scp, session, written, flushed, removed, today, ticks,
          raised_at, remote, rsh, other>>

-----------------------------------------------------------------------------
(* Bounds of the model *)

\* the largest number of options on a command line
MaxOptions == 4

\* the largest number of midnights passing during a run
MaxTicks == 1

-----------------------------------------------------------------------------
(* Program constants *)

ATTRIBUTE_CODE == 0

ARGUMENT_CODE == 1

OPTIONS_LIST_MAX == 4

OPTIONS_LIST_MIN == 3

SHORTOPTS == "l:s:u:p:d:a"

LONGOPTS == <<"local-path=", "server=", "server-path=", "restart-apache">>

ExitCodes == {"SUCCESS", "IO_ERROR", "ATTRIBUTE_ERROR", "GENERAL"}

-----------------------------------------------------------------------------
(* Python string primitives *)

\* s[m-1:n] on strings (1-based, both ends included), "" when out of range
Slice(s, m, n) == IF m > n \/ m < 1 \/ n > Len(s) THEN "" ELSE SubSeq(s, m, n)

\* s[i:i+1], 1-based
CharAt(s, i) == Slice(s, i, i)

\* sub in s
StrIn(sub, s) ==
    \E i \in 1..(Len(s) + 1) :
        /\ i + Len(sub) - 1 <= Len(s)
        /\ Slice(s, i, i + Len(sub) - 1) = sub

\* s.startswith(prefix)
StartsWith(s, prefix) ==
    Len(prefix) <= Len(s) /\ Slice(s, 1, Len(prefix)) = prefix

\* s.endswith(suffix)
EndsWith(s, suffix) ==
    Len(suffix) <= Len(s) /\ Slice(s, Len(s) - Len(suffix) + 1, Len(s)) = suffix

\* s.index(c), 0 when c does not occur
IndexOf(s, c) ==
    IF \E i \in 1..Len(s) : CharAt(s, i) = c
    THEN CHOOSE i \in 1..Len(s) :
            /\ CharAt(s, i) = c
            /\ \A j \in 1..(i - 1) : CharAt(s, j) # c
    ELSE 0

\* the position of the last c in s, 0 when c does not occur
LastIndexOf(s, c) ==
    IF \E i \in 1..Len(s) : CharAt(s, i) = c
    THEN CHOOSE i \in 1..Len(s) :
            /\ CharAt(s, i) = c
            /\ \A j \in (i + 1)..Len(s) : CharAt(s, j) # c
    ELSE 0

\* s[:-n]
DropLast(s, n) == Slice(s, 1, Len(s) - n)

\* s.split("/")[-1:][0]
LastComponent(s) == Slice(s, LastIndexOf(s, "/") + 1, Len(s))

-----------------------------------------------------------------------------
(* getopt.getopt(argv[1:], shortopts, longopts) *)

GetoptError == [err |-> TRUE, opts |-> <<>>, args |-> <<>>]

\* getopt.short_has_arg: "error", "yes" or "no"
ShortHasArg(opt) ==
    IF opt = ":" \/ ~(\E i \in 1..Len(SHORTOPTS) : CharAt(SHORTOPTS, i) = opt)
    THEN "error"
    ELSE IF CharAt(SHORTOPTS, IndexOf(SHORTOPTS, opt) + 1) = ":" THEN "yes" ELSE "no"

\* getopt.long_has_args: [err, has_arg, opt]
LongHasArgs(opt) ==
    LET possibilities == {i \in 1..Len(LONGOPTS) : StartsWith(LONGOPTS[i], opt)}
        unique == LONGOPTS[CHOOSE i \in possibilities : TRUE]
    IN  IF possibilities = {} THEN [err |-> TRUE, has_arg |-> FALSE, opt |-> opt]
        ELSE IF \E i \in possibilities : LONGOPTS[i] = opt
             THEN [err |-> FALSE, has_arg |-> FALSE, opt |-> opt]
        ELSE IF \E i \in possibilities : LONGOPTS[i] = opt \o "="
             THEN [err |-> FALSE, has_arg |-> TRUE, opt |-> opt]
        ELSE IF Cardinality(possibilities) > 1
             THEN [err |-> TRUE, has_arg |-> FALSE, opt |-> opt]
        ELSE IF EndsWith(unique, "=")
             THEN [err |-> FALSE, has_arg |-> TRUE, opt |-> DropLast(unique, 1)]
        ELSE [err |-> FALSE, has_arg |-> FALSE, opt |-> unique]

\* getopt.do_longs
DoLongs(opts, optIn, args) ==
    LET i == IndexOf(optIn, "=")
        hasEq == i > 0
        opt == IF hasEq THEN Slice(optIn, 1, i - 1) ELSE optIn
        optarg == IF hasEq THEN Slice(optIn, i + 1, Len(optIn)) ELSE ""
        h == LongHasArgs(opt)
    IN  IF h.err THEN GetoptError
        ELSE IF h.has_arg
             THEN IF hasEq
                  THEN [err |-> FALSE, opts |-> Append(opts, <<"--" \o h.opt, optarg>>),
                        args |-> args]
                  ELSE IF args = <<>> THEN GetoptError
                       ELSE [err |-> FALSE,
                             opts |-> Append(opts, <<"--" \o h.opt, Head(args)>>),
                             args |-> Tail(args)]
        ELSE IF hasEq THEN GetoptError
        ELSE [err |-> FALSE, opts |-> Append(opts, <<"--" \o h.opt, "">>), args |-> args]

\* getopt.do_shorts
RECURSIVE DoShorts(_, _, _)
DoShorts(opts, optstring, args) ==
    IF optstring = "" THEN [err |-> FALSE, opts |-> opts, args |-> args]
    ELSE LET opt == CharAt(optstring, 1)
             rest == Slice(optstring, 2, Len(optstring))
             h == ShortHasArg(opt)
         IN  IF h = "error" THEN GetoptError
             ELSE IF h = "yes"
                  THEN IF rest = ""
                       THEN IF args = <<>> THEN GetoptError
                            ELSE [err |-> FALSE,
                                  opts |-> Append(opts, <<"-" \o opt, Head(args)>>),
                                  args |-> Tail(args)]
                       ELSE [err |-> FALSE, opts |-> Append(opts, <<"-" \o opt, rest>>),
                             args |-> args]
             ELSE DoShorts(Append(opts, <<"-" \o opt, "">>), rest, args)

\* getopt.getopt
RECURSIVE GetoptLoop(_, _)
GetoptLoop(opts, args) ==
    IF args = <<>> \/ ~StartsWith(Head(args), "-") \/ Head(args) = "-"
    THEN [err |-> FALSE, opts |-> opts, args |-> args]
    ELSE IF Head(args) = "--"
         THEN [err |-> FALSE, opts |-> opts, args |-> Tail(args)]
    ELSE LET r == IF StartsWith(Head(args), "--")
                  THEN DoLongs(opts, Slice(Head(args), 3, Len(Head(args))), Tail(args))
                  ELSE DoShorts(opts, Slice(Head(args), 2, Len(Head(args))), Tail(args))
         IN  IF r.err THEN GetoptError ELSE GetoptLoop(r.opts, r.args)

Getopt(args) == GetoptLoop(<<>>, args)

-----------------------------------------------------------------------------
(* __is_attributes_valid *)

long_attribute_code == 0

short_attribute_code == 1

attributes_mapping ==
    [local_path     |-> <<"local-path", "l">>,
     server         |-> <<"server", "s">>,
     server_path    |-> <<"server-path", "d">>,
     restart_apache |-> <<"restart-apache", "a">>]

\* one pass of the for loop of lines 159-173 over `attribute`
ValidateOne(validation, attribute, n) ==
    LET has(key) == \/ StrIn(attributes_mapping[key][long_attribute_code + 1], attribute)
                    \/ StrIn(attributes_mapping[key][short_attribute_code + 1], attribute)
        v1 == IF has("local_path") THEN [validation EXCEPT ![1] = TRUE]
              ELSE IF has("server") THEN [validation EXCEPT ![2] = TRUE]
              ELSE IF has("server_path") THEN [validation EXCEPT ![3] = TRUE]
              ELSE validation
    IN  IF n = OPTIONS_LIST_MAX /\ has("restart_apache")
        THEN [v1 EXCEPT ![4] = TRUE]
        ELSE v1

RECURSIVE ValidateLoop(_, _, _)
ValidateLoop(validation, attributes, n) ==
    IF attributes = <<>> THEN validation
    ELSE ValidateLoop(ValidateOne(validation, Head(attributes), n), Tail(attributes), n)

\* __is_attributes_valid(attributes)
IsAttributesValid(attributes) ==
    LET validation == [i \in 1..Len(attributes) |-> FALSE]
        final == ValidateLoop(validation, attributes, Len(attributes))
    IN  \A i \in 1..Len(final) : final[i]

\* [option[ATTRIBUTE_CODE] for option in options_list]
AttributesOf(opts) == [i \in 1..Len(opts) |-> opts[i][ATTRIBUTE_CODE + 1]]

\* key in attr_args_mapping.keys(), the dict built at lines 92-93
HasKey(opts, key) == \E i \in 1..Len(opts) : opts[i][ATTRIBUTE_CODE + 1] = key

\* attr_args_mapping[key]: a dict comprehension keeps the last pair of a key
Lookup(opts, key) ==
    LET last == CHOOSE i \in 1..Len(opts) :
                    /\ opts[i][ATTRIBUTE_CODE + 1] = key
                    /\ \A j \in (i + 1)..Len(opts) : opts[j][ATTRIBUTE_CODE + 1] # key
    IN  opts[last][ARGUMENT_CODE + 1]

-----------------------------------------------------------------------------
(* pathlib and time *)

\* str(Path(p).parent)
Parent(p) ==
    LET i == LastIndexOf(p, "/")
    IN  IF i = 0 THEN "." ELSE IF i = 1 THEN "/" ELSE Slice(p, 1, i - 1)

\* str(Path(parent) / name)
JoinPath(parent, name) ==
    IF parent = "." THEN name
    ELSE IF parent = "/" THEN "/" \o name
    ELSE parent \o "/" \o name

\* str(local_path.parent/"compressed_file.tar.bz2"), line 188
TarFilePath(path) == JoinPath(Parent(path), "compressed_file.tar.bz2")

\* a number below 100 as two decimal digits (%d, %m, %y)
TwoDigits(n) == CharAt("0123456789", (n \div 10) + 1) \o CharAt("0123456789", (n % 10) + 1)

\* time.strftime("%d_%m_%y") on the date <<day, month, year>>
Strftime(date) ==
    TwoDigits(date[1]) \o "_" \o TwoDigits(date[2]) \o "_" \o TwoDigits(date[3] % 100)

\* the days of a month (February of a common year)
DaysIn(month) ==
    IF month = 2 THEN 28 ELSE IF month \in {4, 6, 9, 11} THEN 30 ELSE 31

\* the date after midnight
NextDay(date) ==
    IF date[1] < DaysIn(date[2]) THEN <<date[1] + 1, date[2], date[3]>>
    ELSE IF date[2] < 12 THEN <<1, date[2] + 1, date[3]>>
    ELSE <<1, 1, date[3] + 1>>

-----------------------------------------------------------------------------
(* __ssh_processing: the lines written to ssh_pipe.stdin *)

\* Instructions with the removal of backend/ moved after the extraction
Instructions_Reordered(file_name, path, restart, archive, folder) ==
    << "cd " \o path \o "\n",
       "tar -cjf " \o archive \o " backend/\n",
       "mv ./" \o archive \o " ./archive\n",
       "tar jxf ./" \o file_name \o "\n",
       "rm -r ./backend\n",
       "rm ./" \o file_name \o "\n",
       "mv ./" \o folder \o " backend\n" >>
    \o (IF restart THEN <<"systemctl restart httpd\n">> ELSE <<>>)

\* Instructions with the artifact removed before it is extracted
Instructions_RemoveBeforeExtract(file_name, path, restart, archive, folder) ==
    << "cd " \o path \o "\n",
       "tar -cjf " \o archive \o " backend/\n",
       "mv ./" \o archive \o " ./archive\n",
       "rm -r ./backend\n",
       "rm ./" \o file_name \o "\n",
       "tar jxf ./" \o file_name \o "\n",
       "mv ./" \o folder \o " backend\n" >>
    \o (IF restart THEN <<"systemctl restart httpd\n">> ELSE <<>>)

\* Instructions with the date read again for the line of step 3
Instructions_RereadDate(file_name, path, restart, archive, folder) ==
    << "cd " \o path \o "\n",
       "tar -cjf " \o archive \o " backend/\n",
       "mv ./" \o Strftime(today) \o ".tar.bz2" \o " ./archive\n",
       "rm -r ./backend\n",
       "tar jxf ./" \o file_name \o "\n",
       "rm ./" \o file_name \o "\n",
       "mv ./" \o folder \o " backend\n" >>
    \o (IF restart THEN <<"systemctl restart httpd\n">> ELSE <<>>)

\* Instructions that look at the server first: the two archiving lines are left
\* out when the server directory has no backend
Instructions_AsksRemote(file_name, path, restart, archive, folder) ==
    << "cd " \o path \o "\n" >>
    \o (IF \E e \in remote.dir : e.name = "backend"
        THEN << "tar -cjf " \o archive \o " backend/\n",
                "mv ./" \o archive \o " ./archive\n" >>
        ELSE <<>>)
    \o << "rm -r ./backend\n",
          "tar jxf ./" \o file_name \o "\n",
          "rm ./" \o file_name \o "\n",
          "mv ./" \o folder \o " backend\n" >>
    \o (IF restart THEN <<"systemctl restart httpd\n">> ELSE <<>>)

\* the writes of lines 225-247, then the write of line 252 under `if restart_apache`;
\* encode(UTF_8) of these ASCII lines keeps them character for character
Instructions(file_name, path, restart, archive, folder) ==
    << "cd " \o path \o "\n",
       "tar -cjf " \o archive \o " backend/\n",
       "mv ./" \o archive \o " ./archive\n",
       "rm -r ./backend\n",
       "tar jxf ./" \o file_name \o "\n",
       "rm ./" \o file_name \o "\n",
       "mv ./" \o folder \o " backend\n" >>
    \o (IF restart THEN <<"systemctl restart httpd\n">> ELSE <<>>)

\* the lines this run's session is to receive
Script ==
    Instructions(compressed_file_name, server_path, restart_apache,
                 archive_name, new_folder_name)

-----------------------------------------------------------------------------
(* The server directory and the shell that runs the lines of a session *)

\* ArcName taken from the source: the entry is called as the source is
ArcName_SourceName(path) == LastComponent(path)

\* tarfile's arcname of line 195: the name of the archive's only top-level entry
ArcName(path) == "compressed_file"

\* a directory tree (a backend), named by where it came from
Tree(id) == [kind |-> "tree", id |-> id]

\* what tar -cjf makes of the tree `id` ("empty" when there was nothing to archive)
Tarball(id) == [kind |-> "tarball", id |-> id]

\* what __compress_local_file makes: the tree `id` under the entry name `entry`
Artifact(entry, id) == [kind |-> "artifact", id |-> id, entry |-> entry]

\* a directory holding the dated archives `entries`
ArchiveDir(entries) == [kind |-> "dir", entries |-> entries]

Missing == [kind |-> "none"]

\* the entry called `name` of the directory listing `dir`
Get(dir, name) ==
    IF \E e \in dir : e.name = name
    THEN (CHOOSE e \in dir : e.name = name).c
    ELSE Missing

Del(dir, name) == {e \in dir : e.name # name}

Put(dir, name, c) == Del(dir, name) \cup {[name |-> name, c |-> c]}

\* scp <path> host:<server_path>, server_path being a directory: the copy takes
\* the last component of the local path as its name
ScpUpload(dir, path, c) == Put(dir, LastComponent(path), c)

\* tar -cjf <x> backend/: the archive is created even when backend/ is missing,
\* and tar then ends with an error
ExecTarCreate(dir, x) ==
    IF Get(dir, "backend").kind = "tree"
    THEN [dir |-> Put(dir, x, Tarball(Get(dir, "backend").id)), ok |-> TRUE]
    ELSE [dir |-> Put(dir, x, Tarball("empty")), ok |-> FALSE]

\* ExecMvToArchive that keeps an archive already in archive/ (mv -n)
ExecMvToArchive_NoClobber(dir, x) ==
    LET a == Get(dir, "archive")
    IN  IF Get(dir, x).kind = "none" THEN [dir |-> dir, ok |-> FALSE]
        ELSE IF a.kind = "dir"
             THEN IF \E e \in a.entries : e.name = x
                  THEN [dir |-> dir, ok |-> TRUE]
                  ELSE [dir |-> Put(Del(dir, x), "archive",
                                    ArchiveDir(Put(a.entries, x, Get(dir, x)))),
                        ok |-> TRUE]
        ELSE [dir |-> Put(Del(dir, x), "archive", Get(dir, x)), ok |-> TRUE]

\* mv ./<x> ./archive: into archive/ when it is a directory, replacing an entry of
\* the same name; otherwise <x> is renamed to "archive"
ExecMvToArchive(dir, x) ==
    LET a == Get(dir, "archive")
    IN  IF Get(dir, x).kind = "none" THEN [dir |-> dir, ok |-> FALSE]
        ELSE IF a.kind = "dir"
             THEN [dir |-> Put(Del(dir, x), "archive",
                               ArchiveDir(Put(a.entries, x, Get(dir, x)))),
                   ok |-> TRUE]
        ELSE [dir |-> Put(Del(dir, x), "archive", Get(dir, x)), ok |-> TRUE]

\* rm -r ./backend
ExecRmBackend(dir) ==
    IF Get(dir, "backend").kind = "none" THEN [dir |-> dir, ok |-> FALSE]
    ELSE [dir |-> Del(dir, "backend"), ok |-> TRUE]

\* tar jxf ./<f>: the archive's entry appears in the directory
ExecExtract(dir, f) ==
    IF Get(dir, f).kind = "artifact"
    THEN [dir |-> Put(dir, Get(dir, f).entry, Tree(Get(dir, f).id)), ok |-> TRUE]
    ELSE [dir |-> dir, ok |-> FALSE]

\* rm ./<f>
ExecRm(dir, f) ==
    IF Get(dir, f).kind \in {"none", "tree", "dir"} THEN [dir |-> dir, ok |-> FALSE]
    ELSE [dir |-> Del(dir, f), ok |-> TRUE]

\* mv ./<e> backend: a rename, or a move into backend/ when that directory exists
ExecMvToBackend(dir, e) ==
    LET b == Get(dir, "backend")
    IN  IF Get(dir, e).kind = "none" THEN [dir |-> dir, ok |-> FALSE]
        ELSE IF b.kind = "tree"
             THEN [dir |-> Put(Del(dir, e), "backend",
                               Tree(b.id \o "/" \o e \o "=" \o Get(dir, e).id)),
                   ok |-> TRUE]
        ELSE [dir |-> Put(Del(dir, e), "backend", Get(dir, e)), ok |-> TRUE]

\* the remote shell runs one line of its input in the server directory (cd and
\* systemctl leave the directory as it is)
Exec(dir, line) ==
    LET cmd == DropLast(line, 1)
    IN  IF StartsWith(cmd, "tar -cjf ") /\ EndsWith(cmd, " backend/")
        THEN ExecTarCreate(dir, Slice(cmd, 10, Len(cmd) - 9))
        ELSE IF cmd = "rm -r ./backend"
        THEN ExecRmBackend(dir)
        ELSE IF StartsWith(cmd, "mv ./") /\ EndsWith(cmd, " ./archive")
        THEN ExecMvToArchive(dir, Slice(cmd, 6, Len(cmd) - 10))
        ELSE IF StartsWith(cmd, "tar jxf ./")
        THEN ExecExtract(dir, Slice(cmd, 11, Len(cmd)))
        ELSE IF StartsWith(cmd, "rm ./")
        THEN ExecRm(dir, Slice(cmd, 6, Len(cmd)))
        ELSE IF StartsWith(cmd, "mv ./") /\ EndsWith(cmd, " backend")
        THEN ExecMvToBackend(dir, Slice(cmd, 6, Len(cmd) - 8))
        ELSE [dir |-> dir, ok |-> TRUE]

\* the host is left out of the model
Unobserved == [observed |-> FALSE, dir |-> {}]

\* the remote end of a session nothing was sent to
FreshShell == [delivered |-> <<>>, done |-> 0, failed |-> {}]

\* no second invocation
NoOther ==
    [pc |-> "absent", restart |-> FALSE, scp |-> "not_run", archive_name |-> "",
     delivered |-> <<>>, done |-> 0, failed |-> {}, result |-> "none",
     order |-> "none"]

-----------------------------------------------------------------------------
(* The command lines and the environment of a run *)

\* the local paths the options of a regular command line name: one that exists
\* and one that does not
LocalPaths == {"site", "nosuch"}

\* the paths that exist on the local disk when a run starts
ExistingPaths == {"site", "/opt/app.py", "/app.py"}

\* one option of a command line, as the shell passes it
Items ==
    {<<o, p>> : o \in {"-l", "--local-path"}, p \in LocalPaths}
    \cup {<<"-s", "host">>, <<"--server", "host">>}
    \cup {<<"-d", "/srv/www">>, <<"--server-path", "/srv/www">>}
    \cup {<<"-a">>, <<"--restart-apache">>}

RECURSIVE Flatten(_)
Flatten(items) == IF items = <<>> THEN <<>> ELSE Head(items) \o Flatten(Tail(items))

\* command lines of up to MaxOptions options in any order and spelling
RegularArgvs ==
    {<<"easymep.py">> \o Flatten(items) :
        items \in UNION {[1..n -> Items] : n \in 0..MaxOptions}}

\* command lines using the other forms getopt reads or rejects
OtherArgvs ==
    { <<"easymep.py", "-x">>,
      <<"easymep.py", "-l", "site", "-s", "host", "-d">>,
      <<"easymep.py", "--ser", "host", "-l", "site", "-d", "/srv/www">>,
      <<"easymep.py", "-l", "site", "-s", "host", "-u", "bob">>,
      <<"easymep.py", "-l", "/opt/app.py", "-s", "host", "-d", "/srv/www">>,
      <<"easymep.py", "-d", "/srv", "--local-path", "/opt/app.py", "-s", "host", "-a">>,
      <<"easymep.py", "--restart-apache", "-d", "/", "-l", "/app.py", "--server", "h">>,
      <<"easymep.py", "-l", "site", "-u", "bob", "-s", "host", "-d", "/srv/www">>,
      <<"easymep.py", "--local", "site", "--server=host", "-d/srv/www", "--restart">>,
      <<"easymep.py", "-al", "site", "-s", "host", "-d", "/srv/www">>,
      <<"easymep.py", "-l", "site", "-s", "host", "-d", "/srv/www", "now">>,
      <<"easymep.py", "--restart-apache=yes", "-l", "site", "-s", "host", "-d", "/srv/www">> }

Argvs == RegularArgvs \cup OtherArgvs

\* the dates a run may start on
Dates == {<<19, 4, 2014>>, <<31, 12, 2014>>}

\* the state of main when it is entered
InitRun ==
    /\ ticks = 0
    /\ pc = "getopt"
    /\ options_list = <<>>
    /\ local_path = ""
    /\ compressed_file_path = ""
    /\ compressed_file_name = ""
    /\ server_path = ""
    /\ server_name = ""
    /\ restart_apache = FALSE
    /\ archive_name = ""
    /\ new_folder_name = ""
    /\ exc = "none"
    /\ result = "none"
    /\ files = ExistingPaths
    /\ scp = "not_run"
    /\ session = "unopened"
    /\ written = <<>>
    /\ flushed = FALSE
    /\ removed = FALSE
    /\ raised_at = "none"
    /\ rsh = FreshShell

\* one invocation, seen from the machine it runs on
Init ==
    /\ argv \in Argvs
    /\ today \in Dates
    /\ remote = Unobserved
    /\ other = NoOther
    /\ InitRun

\* raise `kind` inside the try block of main: control goes to the except clauses
Raise(kind) == exc' = kind /\ raised_at' = pc /\ pc' = "except"

-----------------------------------------------------------------------------
(* main, lines 74-126 *)

\* lines 76-82: getopt; a GetoptError is an Exception
ParseOptions ==
    /\ pc = "getopt"
    /\ LET r == Getopt(Tail(argv))
       IN  IF r.err
           THEN Raise("Exception") /\ UNCHANGED options_list
           ELSE options_list' = r.opts /\ pc' = "validate" /\ UNCHANGED <<exc, raised_at>>
    /\ other' = IF other.pc = "done" THEN [other EXCEPT !.order = "other_first"]
                 ELSE other
    /\ UNCHANGED <<argv, local_path, compressed_file_path, compressed_file_name,
                   server_path, server_name, restart_apache, archive_name,
                   new_folder_name, result, files, scp, session, written, flushed,
                   removed, today, ticks,
                   rsh, remote>>

\* lines 84-90
ValidateAttributes ==
    /\ pc = "validate"
    /\ IF \/ Len(options_list) < OPTIONS_LIST_MIN
          \/ Len(options_list) > OPTIONS_LIST_MAX
       THEN Raise("AttributeError")
       ELSE IF ~IsAttributesValid(AttributesOf(options_list))
            THEN Raise("AttributeError")
            ELSE pc' = "local_path" /\ UNCHANGED <<exc, raised_at>>
    /\ UNCHANGED <<argv, options_list, local_path, compressed_file_path,
                   compressed_file_name, server_path, server_name, restart_apache,
                   archive_name, new_folder_name, result, files, scp, session,
                   written, flushed, removed, today, ticks,
                   other, rsh, remote>>

\* CheckLocalPath without the exists() test of line 98
CheckLocalPath_NoExistsTest ==
    /\ pc = "local_path"
    /\ local_path' = IF HasKey(options_list, "--local-path")
                     THEN Lookup(options_list, "--local-path")
                     ELSE Lookup(options_list, "-l")
    /\ pc' = "compress"
    /\ UNCHANGED <<argv, options_list, compressed_file_path, compressed_file_name,
                   server_path, server_name, restart_apache, archive_name,
                   new_folder_name, exc, result, files, scp, session, written, flushed,
                   removed, today, ticks,
                   other, rsh, remote, raised_at>>

\* lines 95-99: a missing key is a KeyError, an Exception
CheckLocalPath ==
    /\ pc = "local_path"
    /\ IF HasKey(options_list, "--local-path") \/ HasKey(options_list, "-l")
       THEN LET path == IF HasKey(options_list, "--local-path")
                        THEN Lookup(options_list, "--local-path")
                        ELSE Lookup(options_list, "-l")
            IN  /\ local_path' = path
                /\ IF path \notin files
                   THEN Raise("IOError")
                   ELSE pc' = "compress" /\ UNCHANGED <<exc, raised_at>>
       ELSE Raise("Exception") /\ UNCHANGED local_path
    /\ UNCHANGED <<argv, options_list, compressed_file_path, compressed_file_name,
                   server_path, server_name, restart_apache, archive_name,
                   new_folder_name, result, files, scp, session, written, flushed,
                   removed, today, ticks,
                   other, rsh, remote>>

\* CompressLocalFile with its failures swallowed: main goes on to the copy
CompressLocalFile_IgnoreFailure ==
    /\ pc = "compress"
    /\ \E outcome \in {"ok", "open_fails", "tar_fails"} :
        LET tar_file_path == TarFilePath(local_path)
        IN  /\ files' = IF outcome = "open_fails" THEN files
                        ELSE files \cup {tar_file_path}
            /\ compressed_file_path' = tar_file_path
            /\ raised_at' = IF outcome = "ok" THEN raised_at ELSE pc
            /\ pc' = "lookup"
            /\ UNCHANGED exc
    /\ UNCHANGED <<argv, options_list, local_path, compressed_file_name, server_path,
                   server_name, restart_apache, archive_name, new_folder_name, result,
                   scp, session, written, flushed, removed, today, ticks,
                   other, rsh, remote>>

\* line 101, __compress_local_file (lines 188-198): open(..., "w") may fail before
\* the file exists, the tarfile calls after it does
CompressLocalFile ==
    /\ pc = "compress"
    /\ \E outcome \in {"ok", "open_fails", "tar_fails"} :
        LET tar_file_path == TarFilePath(local_path)
        IN  CASE outcome = "ok" ->
                    /\ files' = files \cup {tar_file_path}
                    /\ compressed_file_path' = tar_file_path
                    /\ pc' = "lookup"
                    /\ UNCHANGED <<exc, raised_at>>
              [] outcome = "open_fails" ->
                    /\ Raise("IOError")
                    /\ UNCHANGED <<files, compressed_file_path>>
              [] outcome = "tar_fails" ->
                    /\ files' = files \cup {tar_file_path}
                    /\ Raise("IOError")
                    /\ UNCHANGED compressed_file_path
    /\ UNCHANGED <<argv, options_list, local_path, compressed_file_name, server_path,
                   server_name, restart_apache, archive_name, new_folder_name, result,
                   scp, session, written, flushed, removed, today, ticks,
                   other, rsh, remote>>

\* lines 103-108: a missing key is a KeyError, an Exception
LookupServer ==
    /\ pc = "lookup"
    /\ IF ~(HasKey(options_list, "--server-path") \/ HasKey(options_list, "-d"))
       THEN Raise("Exception") /\ UNCHANGED <<server_path, server_name>>
       ELSE /\ server_path' = IF HasKey(options_list, "--server-path")
                              THEN Lookup(options_list, "--server-path")
                              ELSE Lookup(options_list, "-d")
            /\ IF ~(HasKey(options_list, "--server") \/ HasKey(options_list, "-s"))
               THEN Raise("Exception") /\ UNCHANGED server_name
               ELSE /\ server_name' = IF HasKey(options_list, "--server")
                                      THEN Lookup(options_list, "--server")
                                      ELSE Lookup(options_list, "-s")
                    /\ pc' = "scp"
                    /\ UNCHANGED <<exc, raised_at>>
    /\ UNCHANGED <<argv, options_list, local_path, compressed_file_path,
                   compressed_file_name, restart_apache, archive_name, new_folder_name,
                   result, files, scp, session, written, flushed, removed, today, ticks,
                   other, rsh, remote>>

\* RemoteCopy run again for as long as scp ends with a non-zero status
RemoteCopy_Retry ==
    /\ pc = "scp"
    /\ \E outcome \in {"ok", "failed", "not_started"} :
        /\ scp' = outcome
        /\ remote' = IF remote.observed /\ outcome = "ok"
                      THEN [remote EXCEPT !.dir = ScpUpload(@, compressed_file_path,
                                                    Artifact(ArcName(local_path), "main"))]
                      ELSE remote
        /\ IF outcome = "not_started"
           THEN Raise("IOError")
           ELSE /\ pc' = IF outcome = "failed" THEN "scp" ELSE "ssh"
                /\ UNCHANGED <<exc, raised_at>>
    /\ UNCHANGED <<argv, options_list, local_path, compressed_file_path,
                   compressed_file_name, server_path, server_name, restart_apache,
                   archive_name, new_folder_name, result, files, session, written,
                   flushed, removed, today, ticks,
                   other, rsh>>

\* RemoteCopy with the status of scp checked: a non-zero status is raised
RemoteCopy_StatusChecked ==
    /\ pc = "scp"
    /\ \E outcome \in {"ok", "failed", "not_started"} :
        /\ scp' = outcome
        /\ remote' = IF remote.observed /\ outcome = "ok"
                      THEN [remote EXCEPT !.dir = ScpUpload(@, compressed_file_path,
                                                    Artifact(ArcName(local_path), "main"))]
                      ELSE remote
        /\ IF outcome = "ok"
           THEN pc' = "ssh" /\ UNCHANGED <<exc, raised_at>>
           ELSE Raise("IOError")
    /\ UNCHANGED <<argv, options_list, local_path, compressed_file_path,
                   compressed_file_name, server_path, server_name, restart_apache,
                   archive_name, new_folder_name, result, files, session, written,
                   flushed, removed, today, ticks,
                   other, rsh>>

\* lines 110-115: call(['scp', ...]); its return value is dropped, and it raises
\* an OSError only when scp cannot be started
RemoteCopy ==
    /\ pc = "scp"
    /\ \E outcome \in {"ok", "failed", "not_started"} :
        /\ scp' = outcome
        /\ remote' = IF remote.observed /\ outcome = "ok"
                      THEN [remote EXCEPT !.dir = ScpUpload(@, compressed_file_path,
                                                    Artifact(ArcName(local_path), "main"))]
                      ELSE remote
        /\ IF outcome = "not_started"
           THEN Raise("IOError")
           ELSE pc' = "ssh" /\ UNCHANGED <<exc, raised_at>>
    /\ UNCHANGED <<argv, options_list, local_path, compressed_file_path,
                   compressed_file_name, server_path, server_name, restart_apache,
                   archive_name, new_folder_name, result, files, session, written,
                   flushed, removed, today, ticks,
                   other, rsh>>

-----------------------------------------------------------------------------
(* __ssh_processing, lines 217-255, called at lines 117-122 *)

\* the 4th argument at line 121
RestartArgument(opts) == HasKey(opts, "--restart-apache")

\* lines 117-122 and 217-222: the arguments, the two names, then Popen(["ssh", ...]),
\* which raises an OSError when ssh cannot be started
SshOpen ==
    /\ pc = "ssh"
    /\ compressed_file_name' = LastComponent(compressed_file_path)
    /\ restart_apache' = RestartArgument(options_list)
    /\ archive_name' = Strftime(today) \o ".tar.bz2"
    /\ new_folder_name' = DropLast(LastComponent(compressed_file_path), 8)
    /\ \E started \in BOOLEAN :
        IF started
        THEN session' = "open" /\ pc' = "ssh_write" /\ UNCHANGED <<exc, raised_at>>
        ELSE Raise("IOError") /\ UNCHANGED session
    /\ UNCHANGED <<argv, options_list, local_path, compressed_file_path, server_path,
                   server_name, result, files, scp, written, flushed, removed, today,
                   ticks,
                   other, rsh, remote>>

\* the writes are buffered: the lines reach the remote shell when the buffer is
\* flushed, by line 255 or by the close of the pipe after a failure, which may
\* send the buffer or lose it
Deliver(lines) ==
    rsh' = IF remote.observed THEN [rsh EXCEPT !.delivered = lines] ELSE rsh

\* SshWrite outside a with block: a failed write goes straight to main's except
\* clauses and nothing closes the pipe
SshWrite_NoWith ==
    /\ pc = "ssh_write"
    /\ Len(written) < Len(Script)
    /\ \E ok \in BOOLEAN :
        IF ok
        THEN /\ written' = Append(written, Script[Len(written) + 1])
             /\ pc' = IF Len(written) + 1 = Len(Script) THEN "ssh_flush" ELSE "ssh_write"
             /\ UNCHANGED <<exc, raised_at, rsh>>
        ELSE /\ Raise("IOError")
             /\ UNCHANGED <<written, rsh>>
    /\ UNCHANGED <<argv, options_list, local_path, compressed_file_path,
                   compressed_file_name, server_path, server_name, restart_apache,
                   archive_name, new_folder_name, result, files, scp, session, flushed,
                   removed, today, ticks,
                   other, remote>>

\* SshWrite with a failed write swallowed: the driver stops writing and ends as
\* if nothing had happened
SshWrite_SwallowFailure ==
    /\ pc = "ssh_write"
    /\ Len(written) < Len(Script)
    /\ \E ok \in BOOLEAN :
        IF ok
        THEN /\ written' = Append(written, Script[Len(written) + 1])
             /\ pc' = IF Len(written) + 1 = Len(Script) THEN "ssh_flush" ELSE "ssh_write"
             /\ UNCHANGED <<exc, raised_at, rsh>>
        ELSE /\ raised_at' = pc
             /\ pc' = "ssh_exit"
             /\ \E sent \in {<<>>, written} : Deliver(sent)
             /\ UNCHANGED <<written, exc>>
    /\ UNCHANGED <<argv, options_list, local_path, compressed_file_path,
                   compressed_file_name, server_path, server_name, restart_apache,
                   archive_name, new_folder_name, result, files, scp, session, flushed,
                   removed, today, ticks,
                   other, remote>>

\* one ssh_pipe.stdin.write of lines 225-253: the next line of the script, or an
\* OSError (a broken pipe) that leaves the with block
SshWrite ==
    /\ pc = "ssh_write"
    /\ Len(written) < Len(Script)
    /\ \E ok \in BOOLEAN :
        IF ok
        THEN /\ written' = Append(written, Script[Len(written) + 1])
             /\ pc' = IF Len(written) + 1 = Len(Script) THEN "ssh_flush" ELSE "ssh_write"
             /\ UNCHANGED <<exc, raised_at, rsh>>
        ELSE /\ exc' = "IOError"
             /\ raised_at' = pc
             /\ pc' = "ssh_exit"
             /\ \E sent \in {<<>>, written} : Deliver(sent)
             /\ UNCHANGED written
    /\ UNCHANGED <<argv, options_list, local_path, compressed_file_path,
                   compressed_file_name, server_path, server_name, restart_apache,
                   archive_name, new_folder_name, result, files, scp, session, flushed,
                   removed, today, ticks,
                   other, remote>>

\* SshFlush without the flush call of line 255: the with block is left at once
SshFlush_Skip ==
    /\ pc = "ssh_flush"
    /\ Deliver(written)
    /\ pc' = "ssh_exit"
    /\ UNCHANGED <<argv, options_list, local_path, compressed_file_path,
                   compressed_file_name, server_path, server_name, restart_apache,
                   archive_name, new_folder_name, result, files, scp, session, written,
                   removed, today, ticks, flushed, exc, raised_at,
                   other, remote>>

\* line 255: ssh_pipe.stdin.flush()
SshFlush ==
    /\ pc = "ssh_flush"
    /\ \E ok \in BOOLEAN :
        IF ok
        THEN flushed' = TRUE /\ Deliver(written) /\ UNCHANGED <<exc, raised_at>>
        ELSE /\ exc' = "IOError"
             /\ raised_at' = pc
             /\ \E sent \in {<<>>, written} : Deliver(sent)
             /\ UNCHANGED flushed
    /\ pc' = "ssh_exit"
    /\ UNCHANGED <<argv, options_list, local_path, compressed_file_path,
                   compressed_file_name, server_path, server_name, restart_apache,
                   archive_name, new_folder_name, result, files, scp, session, written,
                   removed, today, ticks,
                   other, remote>>

\* SshExit followed by the os.remove of line 124 whether or not an exception is in
\* flight (the removal written as a finally clause)
SshExit_RemoveAlways ==
    /\ pc = "ssh_exit"
    /\ rsh.done = Len(rsh.delivered)
    /\ session' = "closed"
    /\ pc' = "remove"
    /\ UNCHANGED <<argv, options_list, local_path, compressed_file_path,
                   compressed_file_name, server_path, server_name, restart_apache,
                   archive_name, new_folder_name, exc, result, files, scp, written,
                   flushed, removed, today, ticks,
                   other, rsh, remote, raised_at>>

\* the end of the with block of line 221: Popen.__exit__ closes the pipes and
\* waits for ssh, which ends when the remote shell has run what it received; then
\* the exception in flight, if any, goes on to main's except clauses
SshExit ==
    /\ pc = "ssh_exit"
    /\ rsh.done = Len(rsh.delivered)
    /\ session' = "closed"
    /\ pc' = IF exc = "none" THEN "remove" ELSE "except"
    /\ UNCHANGED <<argv, options_list, local_path, compressed_file_path,
                   compressed_file_name, server_path, server_name, restart_apache,
                   archive_name, new_folder_name, exc, result, files, scp, written,
                   flushed, removed, today, ticks,
                   other, rsh, remote, raised_at>>

\* RemoveArtifact without the os.remove call of line 124
RemoveArtifact_NoRemove ==
    /\ pc = "remove"
    /\ result' = "SUCCESS"
    /\ pc' = "done"
    /\ UNCHANGED <<argv, options_list, local_path, compressed_file_path,
                   compressed_file_name, server_path, server_name, restart_apache,
                   archive_name, new_folder_name, exc, files, removed, scp, session,
                   written, flushed, today, ticks,
                   other, rsh, remote, raised_at>>

\* lines 124-126: os.remove, then return ExitCodes.SUCCESS
RemoveArtifact ==
    /\ pc = "remove"
    /\ \E ok \in BOOLEAN :
        IF ok
        THEN /\ files' = files \ {compressed_file_path}
             /\ removed' = TRUE
             /\ result' = "SUCCESS"
             /\ pc' = "done"
             /\ UNCHANGED <<exc, raised_at>>
        ELSE /\ Raise("IOError")
             /\ UNCHANGED <<files, removed, result>>
    /\ UNCHANGED <<argv, options_list, local_path, compressed_file_path,
                   compressed_file_name, server_path, server_name, restart_apache,
                   archive_name, new_folder_name, scp, session, written, flushed, today,
                   ticks,
                   other, rsh, remote>>

-----------------------------------------------------------------------------
(* main's except clauses, lines 127-136 *)

\* what main ends with once an except clause has run
Finish(outcome) ==
    /\ result' = outcome
    /\ pc' = "done"
    /\ UNCHANGED <<argv, options_list, local_path, compressed_file_path,
                   compressed_file_name, server_path, server_name, restart_apache,
                   archive_name, new_folder_name, exc, files, scp, session, written,
                   flushed, removed, today, ticks,
                   other, rsh, remote, raised_at>>

\* lines 127-129
ExceptIOError == pc = "except" /\ exc = "IOError" /\ Finish("IO_ERROR")

\* lines 130-132
ExceptAttributeError ==
    pc = "except" /\ exc = "AttributeError" /\ Finish("ATTRIBUTE_ERROR")

\* str + value, as at line 135: a TypeError unless the value is a str
StrPlus(kind) == IF kind = "str" THEN "str" ELSE "TypeError"

\* lines 133-136: ERROR_COLORS + ex adds a str and an exception object, so the
\* clause raises a TypeError before its return statement and main ends with it
ExceptException ==
    /\ pc = "except"
    /\ exc \notin {"none", "IOError", "AttributeError"}
    /\ Finish(IF StrPlus("exception") = "str" THEN "GENERAL" ELSE "raised TypeError")

-----------------------------------------------------------------------------
(* the calendar *)

\* midnight passes while the session driver runs; time.strftime of line 217 is the
\* only place the date is read
DayPasses ==
    /\ pc \in {"ssh", "ssh_write", "ssh_flush", "ssh_exit"}
    /\ ticks < MaxTicks
    /\ today' = NextDay(today)
    /\ ticks' = ticks + 1
    /\ UNCHANGED <<argv, pc, options_list, local_path, compressed_file_path,
                   compressed_file_name, server_path, server_name, restart_apache,
                   archive_name, new_folder_name, exc, result, files, scp, session,
                   written, flushed, removed,
                   other, rsh, remote, raised_at>>

Next ==
    \/ ParseOptions
    \/ ValidateAttributes
    \/ CheckLocalPath
    \/ CompressLocalFile
    \/ LookupServer
    \/ RemoteCopy
    \/ SshOpen
    \/ SshWrite
    \/ SshFlush
    \/ SshExit
    \/ RemoveArtifact
    \/ ExceptIOError
    \/ ExceptAttributeError
    \/ ExceptException
    \/ DayPasses

Spec == Init /\ [][Next]_vars

-----------------------------------------------------------------------------
(* The server, and a second invocation of the script against the same server *)

\* the remote shell of main's session runs the next line it received
RemoteExec ==
    /\ remote.observed
    /\ rsh.done < Len(rsh.delivered)
    /\ LET r == Exec(remote.dir, rsh.delivered[rsh.done + 1])
       IN  /\ remote' = [remote EXCEPT !.dir = r.dir]
           /\ rsh' = [rsh EXCEPT !.done = @ + 1,
                                 !.failed = IF r.ok THEN @ ELSE @ \cup {rsh.done + 1}]
    /\ UNCHANGED <<argv, pc, options_list, local_path, compressed_file_path,
                   compressed_file_name, server_path, server_name, restart_apache,
                   archive_name, new_folder_name, exc, result, files, scp, session,
                   written, flushed, removed, today, ticks, raised_at, other>>

\* the local path, the server path and the artifact of the second invocation
OtherLocalPath == "/opt/app.py"

OtherServerPath == "/srv/www"

OtherFileName == LastComponent(TarFilePath(OtherLocalPath))

\* what is left alone by the steps of the second invocation
mainVars ==
    <<argv, pc, options_list, local_path, compressed_file_path,
      compressed_file_name, server_path, server_name, restart_apache, archive_name,
      new_folder_name, exc, result, files, scp, session, written, flushed, removed,
      today, ticks, raised_at, rsh>>

\* lines 101-115 of the second invocation: its artifact is made and copied; the
\* status of scp is dropped
OtherCopy ==
    /\ other.pc = "idle"
    /\ \E outcome \in {"ok", "failed"} :
        /\ other' = [other EXCEPT !.pc = "copied", !.scp = outcome,
                                  !.order = IF pc = "done" THEN "main_first" ELSE @]
        /\ remote' = IF outcome = "ok"
                     THEN [remote EXCEPT !.dir =
                             ScpUpload(@, TarFilePath(OtherLocalPath),
                                       Artifact(ArcName(OtherLocalPath), "other"))]
                     ELSE remote
    /\ UNCHANGED mainVars

\* lines 217-255 of the second invocation: the names, the session, the writes and
\* the flush, none of which fails
OtherSession ==
    /\ other.pc = "copied"
    /\ other' = [other EXCEPT
                    !.pc = "session",
                    !.archive_name = Strftime(today) \o ".tar.bz2",
                    !.delivered = Instructions(OtherFileName, OtherServerPath,
                                               other.restart,
                                               Strftime(today) \o ".tar.bz2",
                                               DropLast(OtherFileName, 8))]
    /\ UNCHANGED <<mainVars, remote>>

\* the remote shell of the second invocation's session runs its next line
OtherExec ==
    /\ other.pc = "session"
    /\ other.done < Len(other.delivered)
    /\ LET r == Exec(remote.dir, other.delivered[other.done + 1])
       IN  /\ remote' = [remote EXCEPT !.dir = r.dir]
           /\ other' = [other EXCEPT !.done = @ + 1,
                                     !.failed = IF r.ok THEN @
                                                ELSE @ \cup {other.done + 1}]
    /\ UNCHANGED mainVars

\* the end of the with block and lines 124-126 of the second invocation
OtherFinish ==
    /\ other.pc = "session"
    /\ other.done = Len(other.delivered)
    /\ other' = [other EXCEPT !.pc = "done", !.result = "SUCCESS"]
    /\ UNCHANGED <<mainVars, remote>>

\* command lines of the invocation that is followed step by step
RemoteArgvs ==
    { <<"easymep.py", "-l", "site", "-s", "host", "-d", "/srv/www">>,
      <<"easymep.py", "-l", "/opt/app.py", "-s", "host", "-d", "/srv/www",
        "--restart-apache">>,
      <<"easymep.py", "-d", "/srv/www", "--server", "host", "-l", "/app.py", "-a">>,
      <<"easymep.py", "-l", "site", "-s", "host">>,
      <<"easymep.py", "-x">> }

\* the server directory before the runs: after earlier deployments, and before
\* the first one
ServerDirs ==
    { { [name |-> "backend", c |-> Tree("old")],
        [name |-> "archive",
         c |-> ArchiveDir({[name |-> "30_12_14.tar.bz2", c |-> Tarball("older")]})] },
      {} }

\* the date the runs start on
RemoteDates == {<<31, 12, 2014>>}

\* two invocations against one server directory
InitRemote ==
    /\ argv \in RemoteArgvs
    /\ today \in RemoteDates
    /\ remote \in {[observed |-> TRUE, dir |-> d] : d \in ServerDirs}
    /\ other \in {[NoOther EXCEPT !.pc = "idle", !.restart = b] : b \in BOOLEAN}
    /\ InitRun

NextRemote ==
    \/ ParseOptions
    \/ ValidateAttributes
    \/ CheckLocalPath
    \/ CompressLocalFile
    \/ LookupServer
    \/ RemoteCopy
    \/ SshOpen
    \/ SshWrite
    \/ SshFlush
    \/ SshExit
    \/ RemoveArtifact
    \/ ExceptIOError
    \/ ExceptAttributeError
    \/ ExceptException
    \/ DayPasses
    \/ RemoteExec
    \/ OtherCopy
    \/ OtherSession
    \/ OtherExec
    \/ OtherFinish

SpecRemote == InitRemote /\ [][NextRemote]_vars

-----------------------------------------------------------------------------
(* Properties *)

\* the options supplied on the command line, as getopt reads them
Supplied == Getopt(Tail(argv))

\* the number of options of `opts` spelled as one of `keys`
RECURSIVE CountKeys(_, _)
CountKeys(opts, keys) ==
    IF opts = <<>> THEN 0
    ELSE (IF Head(opts)[1] \in keys THEN 1 ELSE 0) + CountKeys(Tail(opts), keys)

LocalPathKeys == {"-l", "--local-path"}

ServerKeys == {"-s", "--server"}

ServerPathKeys == {"-d", "--server-path"}

RestartKeys == {"-a", "--restart-apache"}

\* s is a prefix of t
IsPrefix(s, t) == Len(s) <= Len(t) /\ \A i \in 1..Len(s) : s[i] = t[i]

\* the driver has written every line it was to write
AllWritten == pc = "ssh_flush" \/ flushed

\* nothing of a run's side effects has happened
NoSideEffects ==
    /\ files = ExistingPaths
    /\ compressed_file_path = ""
    /\ scp = "not_run"
    /\ session = "unopened"
    /\ written = <<>>
    /\ ~removed

\* the remote sequence of the interface description, steps 1 to 7
C1_Steps ==
    << "cd " \o server_path \o "\n",
       "tar -cjf " \o archive_name \o " backend/\n",
       "mv ./" \o archive_name \o " ./archive\n",
       "rm -r ./backend\n",
       "tar jxf ./" \o compressed_file_name \o "\n",
       "rm ./" \o compressed_file_name \o "\n",
       "mv ./" \o new_folder_name \o " backend\n" >>

\* C1: once the session is open, the lines written are the leading lines of
\* steps 1-7 followed by 'systemctl restart httpd' exactly when restart is true,
\* in that order; when the driver has written them all they are the whole
\* sequence, 7 lines without restart and 8 with it.
C1_InstructionSequence ==
    session # "unopened" =>
        LET expected == IF restart_apache
                        THEN Append(C1_Steps, "systemctl restart httpd\n")
                        ELSE C1_Steps
        IN  /\ IsPrefix(written, expected)
            /\ AllWritten => /\ written = expected
                             /\ Len(written) = IF restart_apache THEN 8 ELSE 7

\* C1 witness: a session that has received all 8 lines, and was flushed
C1_Witness == flushed /\ restart_apache /\ Len(written) = 8

\* C2: when the driver has written all its lines, the restart line is among them
\* if and only if the command line gave the restart flag, as -a or as
\* --restart-apache.
C2_RestartEitherSpelling ==
    AllWritten =>
        ((\E i \in 1..Len(written) : written[i] = "systemctl restart httpd\n")
            <=> CountKeys(Supplied.opts, RestartKeys) > 0)

\* C3: a command line giving local path, server and server path once each, in
\* either spelling, with at most one restart flag and nothing else, is not
\* rejected with ATTRIBUTE_ERROR.
C3_MandatoryOnceAccepted ==
    ( /\ ~Supplied.err
      /\ CountKeys(Supplied.opts, LocalPathKeys) = 1
      /\ CountKeys(Supplied.opts, ServerKeys) = 1
      /\ CountKeys(Supplied.opts, ServerPathKeys) = 1
      /\ CountKeys(Supplied.opts, RestartKeys) <= 1
      /\ Len(Supplied.opts) = 3 + CountKeys(Supplied.opts, RestartKeys) )
    => /\ exc # "AttributeError"
       /\ result # "ATTRIBUTE_ERROR"

\* C4: a command line with fewer than 3 or more than 4 options, or without one of
\* local path, server and server path, has no side effect at any moment of the
\* run and ends with ATTRIBUTE_ERROR.
C4_InvalidRequestRejected ==
    ( /\ ~Supplied.err
      /\ \/ Len(Supplied.opts) < 3
         \/ Len(Supplied.opts) > 4
         \/ CountKeys(Supplied.opts, LocalPathKeys) = 0
         \/ CountKeys(Supplied.opts, ServerKeys) = 0
         \/ CountKeys(Supplied.opts, ServerPathKeys) = 0 )
    => /\ NoSideEffects
       /\ pc = "done" => result = "ATTRIBUTE_ERROR"

\* C5: when validation has passed and the local path named does not exist, the
\* run goes no further than the except clauses, no side effect ever takes place
\* and main ends with IO_ERROR.
C5_MissingLocalPath ==
    (local_path # "" /\ local_path \notin ExistingPaths) =>
        /\ pc \in {"except", "done"}
        /\ NoSideEffects
        /\ pc = "done" => result = "IO_ERROR"

\* C5 witness: a run ended on a local path that does not exist
C5_Witness == pc = "done" /\ local_path = "nosuch" /\ result = "IO_ERROR"

\* C6: when the remote copy did not succeed (non-zero status, or not started), no
\* session is opened and no line is written.
C6_TransportFailureStopsRun ==
    scp \in {"failed", "not_started"} => session = "unopened" /\ written = <<>>

\* C7: main always ends by returning one of the four outcome codes, and a failure
\* that is neither an I/O error nor an attribute error ends with GENERAL.
C7_OutcomeIsACode ==
    pc = "done" =>
        /\ result \in ExitCodes
        /\ exc = "Exception" => result = "GENERAL"

\* C8: when main returns SUCCESS, the artifact made by this run is no longer on
\* disk, and it was created, the remote copy was run, all 7 or 8 lines were
\* written and flushed, and the session was closed.
C8_CleanupAfterSuccess ==
    result = "SUCCESS" =>
        /\ compressed_file_path # ""
        /\ compressed_file_path \notin files
        /\ removed
        /\ scp \in {"ok", "failed"}
        /\ written = Script
        /\ Len(written) = IF restart_apache THEN 8 ELSE 7
        /\ flushed
        /\ session = "closed"

\* C8 witness: a successful run of 7 lines
C8_Witness == result = "SUCCESS" /\ Len(written) = 7 /\ removed

\* C9: the session is open only while the driver runs; whenever the driver has
\* been left, by its end or by a failed write or flush, the session is no longer
\* open, so no run ends with an open session.
C9_SessionClosedOnExit ==
    session = "open" => pc \in {"ssh_write", "ssh_flush", "ssh_exit"}

\* C9 witness: a run ended by a write that failed partway, its session closed
C9_Witness ==
    /\ pc = "done"
    /\ exc = "IOError"
    /\ session = "closed"
    /\ Len(written) \in 1..6

\* C10: the artifact is deleted only after the whole sequence was written and
\* flushed and the session closed, and in a run where a stage raised (the copy,
\* the opening of the session, a write, the flush) it is not deleted and is still
\* on disk when main ends.
C10_DeleteOnlyAfterSession ==
    /\ removed => /\ written = Script
                  /\ flushed
                  /\ session = "closed"
                  /\ exc = "none"
    /\ (pc = "done" /\ exc # "none" /\ compressed_file_path # "") =>
            /\ ~removed
            /\ compressed_file_path \in files

\* C10 witness: a run ended by a failed flush, the artifact still on disk
C10_Witness ==
    /\ pc = "done"
    /\ exc = "IOError"
    /\ session = "closed"
    /\ written = Script
    /\ ~flushed
    /\ compressed_file_path \in files

\* the fixed sequence of the interface description for this run
FixedSequence ==
    IF restart_apache THEN Append(C1_Steps, "systemctl restart httpd\n") ELSE C1_Steps

\* how far the session has come: 0 Unopened, 1 Connecting, 2 Streaming,
\* 3 Flushing, 4 Closed
C11_SessionRank ==
    CASE session = "closed" -> 4
      [] session = "open" /\ (pc = "ssh_flush" \/ flushed \/ raised_at = "ssh_flush") -> 3
      [] session = "open" -> 2
      [] session = "unopened" /\ (pc = "ssh" \/ raised_at = "ssh") -> 1
      [] OTHER -> 0

\* C11: the session only moves forward through Unopened, Connecting, Streaming,
\* Flushing, Closed; a line is written only to an open session on which no flush
\* was attempted; the flush happens on an open session that holds the whole
\* sequence (7 or 8 lines), and a session closed without error was flushed.
C11_SessionOrder ==
    /\ [](/\ written # <<>> => session # "unopened"
          /\ flushed => /\ written = FixedSequence
                        /\ Len(written) = IF restart_apache THEN 8 ELSE 7
                        /\ session # "unopened"
          /\ (session = "closed" /\ exc = "none") => flushed)
    /\ [][/\ C11_SessionRank' >= C11_SessionRank
          /\ written' # written => /\ session = "open" /\ session' = "open"
                                   /\ C11_SessionRank = 2
                                   /\ ~flushed
          /\ flushed' # flushed => /\ flushed'
                                   /\ session = "open" /\ session' = "open"
                                   /\ written = FixedSequence]_vars

\* C11 witness: a session that received 8 lines, was flushed, and is closed
C11_Witness == session = "closed" /\ flushed /\ Len(written) = 8 /\ pc = "remove"

\* C12: after a write to the session has failed, the lines written are a strict
\* prefix of the fixed sequence and never grow again, nothing is flushed, the
\* artifact stays on disk, the session is closed as the driver is left, and main
\* ends with IO_ERROR.
C12_WriteFailsPartway ==
    /\ [](raised_at = "ssh_write" =>
            /\ IsPrefix(written, FixedSequence)
            /\ Len(written) < Len(FixedSequence)
            /\ ~flushed
            /\ ~removed
            /\ compressed_file_path \in files
            /\ pc \in {"ssh_exit", "except", "done"}
            /\ pc # "ssh_exit" => session = "closed"
            /\ pc = "done" => result = "IO_ERROR")
    /\ [][raised_at = "ssh_write" => written' = written]_vars

\* C12 witness: main ended after the write of the 4th line failed
C12_Witness ==
    /\ pc = "done"
    /\ raised_at = "ssh_write"
    /\ Len(written) = 3
    /\ result = "IO_ERROR"

\* C13: a stage runs only after the stages before it returned, and a stage that
\* raises stops the run: the copy is run only once the artifact exists, the
\* session is opened only once the copy command has returned, the artifact is
\* deleted only after the session, and after the Packager raised there is no
\* copy and no session.
C13_StagesInOrder ==
    /\ compressed_file_path # "" =>
            /\ local_path # ""
            /\ (compressed_file_path \in files \/ removed)
    /\ scp # "not_run" => compressed_file_path # ""
    /\ (pc = "ssh" \/ session # "unopened") => scp \in {"ok", "failed"}
    /\ removed => session = "closed"
    /\ raised_at \in {"getopt", "validate", "local_path"} => NoSideEffects
    /\ raised_at \in {"compress", "lookup"} =>
            /\ scp = "not_run"
            /\ session = "unopened"
            /\ written = <<>>
            /\ ~removed
    /\ raised_at = "scp" => session = "unopened" /\ written = <<>> /\ ~removed
    /\ raised_at # "none" => pc \in {"ssh_exit", "except", "done"} /\ ~removed

\* C13 witness: main ended after the Packager raised with the file already made
C13_Witness ==
    /\ pc = "done"
    /\ raised_at = "compress"
    /\ TarFilePath(local_path) \in files
    /\ scp = "not_run"

\* the place of a position of main in the pipeline
C14_Rank(p) ==
    CASE p = "getopt" -> 0
      [] p = "validate" -> 1
      [] p = "local_path" -> 2
      [] p = "compress" -> 3
      [] p = "lookup" -> 4
      [] p = "scp" -> 5
      [] p = "ssh" -> 6
      [] p = "ssh_write" -> 7
      [] p = "ssh_flush" -> 8
      [] p = "ssh_exit" -> 9
      [] p = "remove" -> 10
      [] p = "except" -> 11
      [] p = "done" -> 12

\* C14: main never goes back to a stage: every step that is not one more write
\* to the open session (or midnight passing, or a step on the server) moves main
\* forward, so the Packager, the copy and the opening of a session happen at most
\* once; the result of the copy and the artifact path never change once set, a
\* session is never reopened, and every line is written to the one open session.
C14_NoRetry ==
    [][/\ pc' # pc => C14_Rank(pc') > C14_Rank(pc)
       /\ (pc' = pc /\ pc \in {"compress", "scp", "ssh"}) =>
              /\ scp' = scp
              /\ session' = session
              /\ files' = files
              /\ compressed_file_path' = compressed_file_path
       /\ (pc' = pc /\ written' # written) =>
              /\ pc = "ssh_write"
              /\ Len(written') = Len(written) + 1
       /\ scp # "not_run" => scp' = scp
       /\ compressed_file_path # "" => compressed_file_path' = compressed_file_path
       /\ session' # session => \/ session = "unopened" /\ session' = "open"
                                \/ session = "open" /\ session' = "closed"
       /\ written' # written => /\ session = "open" /\ session' = "open"
                                /\ SubSeq(written', 1, Len(written)) = written]_vars

\* C14 witness: a whole run, copy and session included
C14_Witness ==
    /\ pc = "done"
    /\ result = "SUCCESS"
    /\ scp = "ok"
    /\ session = "closed"
    /\ written = Script

\* DD_MM_YY of the date <<day, month, year>>
C17_Digits == <<"0", "1", "2", "3", "4", "5", "6", "7", "8", "9">>

C17_DD(n) == C17_Digits[(n \div 10) + 1] \o C17_Digits[(n % 10) + 1]

C17_Stamp(date) ==
    C17_DD(date[1]) \o "_" \o C17_DD(date[2]) \o "_" \o C17_DD(date[3] % 100)

\* C17: the archive name is set once, when the session driver starts, to the date
\* of that moment as DD_MM_YY followed by .tar.bz2, and never changes; the lines
\* of steps 2 and 3 both carry that one name, whatever the date has become when
\* they are written.
C17_DateStampOnce ==
    /\ [](/\ Len(written) >= 2 =>
                written[2] = "tar -cjf " \o archive_name \o " backend/\n"
          /\ Len(written) >= 3 =>
                written[3] = "mv ./" \o archive_name \o " ./archive\n")
    /\ [][/\ archive_name' # archive_name =>
                /\ pc = "ssh"
                /\ archive_name = ""
                /\ archive_name' = C17_Stamp(today) \o ".tar.bz2"
          /\ pc = "ssh" /\ pc' # "ssh" =>
                archive_name' = C17_Stamp(today) \o ".tar.bz2"]_vars

\* C17 witness: steps 2 and 3 written on 1 January 2015 in a run whose driver
\* started on 31 December 2014
C17_Witness ==
    /\ today = <<1, 1, 2015>>
    /\ archive_name = "31_12_14.tar.bz2"
    /\ Len(written) >= 3
    /\ written[3] = "mv ./31_12_14.tar.bz2 ./archive\n"

\* the second invocation was given the request of the first: same artifact file
\* name, server path, restart flag and date stamp
C15_SameRequest ==
    /\ compressed_file_name = OtherFileName
    /\ server_path = OtherServerPath
    /\ restart_apache = other.restart
    /\ archive_name = other.archive_name

\* C15: from the opening of the session on, the lines the driver is to write are
\* fixed by (artifact file name, server path, restart flag, archive name) and no
\* step of the server or of another run changes them; two runs with the same
\* four values write the same lines, whatever state the server directory was in
\* and whichever of their lines failed there.
C15_StreamIndependentOfRemote ==
    /\ []((C15_SameRequest /\ AllWritten /\ other.pc \in {"session", "done"}) =>
              written = other.delivered)
    /\ [][session # "unopened" =>
              /\ Script' = Script
              /\ IsPrefix(written', Script)]_vars

\* C15 witness: two runs of one request whose lines did not fare the same on the
\* server, and that wrote the same 8 lines
C15_Witness ==
    /\ pc = "done"
    /\ other.pc = "done"
    /\ C15_SameRequest
    /\ flushed
    /\ Len(written) = 8
    /\ written = other.delivered
    /\ rsh.failed # other.failed

\* C16 as stated: main ends with SUCCESS whenever validation (the reading of the
\* options included), packaging, the writes, the flush and the deletion did not
\* raise.
C16_SuccessUnlessListedStageRaises ==
    (pc = "done" /\ raised_at \notin {"getopt", "validate", "local_path", "lookup",
                                       "compress", "ssh_write", "ssh_flush", "remove"})
        => result = "SUCCESS"

\* C16: main ends with SUCCESS exactly when no local step raised, the start of
\* the scp and ssh commands included; the status scp ended with never raises,
\* and what the lines did on the server never changes the outcome.
C16_OutcomeIgnoresRemote ==
    /\ pc = "done" => (result = "SUCCESS" <=> raised_at = "none")
    /\ raised_at = "scp" => scp = "not_started"
    /\ raised_at = "ssh" => session = "unopened"
    /\ (pc = "done" /\ scp = "failed" /\ session = "closed" /\ flushed /\ removed)
            => result = "SUCCESS"

\* C16 witness: SUCCESS after a copy that failed and a step 2 that failed on a
\* server directory without backend/
C16_Witness ==
    /\ pc = "done"
    /\ result = "SUCCESS"
    /\ scp = "failed"
    /\ other.pc = "idle"
    /\ {2, 5} \subseteq rsh.failed

\* C18: the lines of steps 5 and 6 name the file the copy put on the server (the
\* last component of the artifact path), the line of step 7 names the entry the
\* Packager gave the archive, which is that file name without .tar.bz2; in a run
\* alone on the server whose copy succeeded, steps 5, 6 and 7 therefore succeed
\* and install what the artifact holds as backend.
C18_NamesMatchStages ==
    LET uploaded == LastComponent(TarFilePath(local_path))
        entry == ArcName(local_path)
    IN  /\ Len(written) >= 7 =>
              /\ written[5] = "tar jxf ./" \o uploaded \o "\n"
              /\ written[6] = "rm ./" \o uploaded \o "\n"
              /\ written[7] = "mv ./" \o entry \o " backend\n"
              /\ uploaded = entry \o ".tar.bz2"
        /\ (scp = "ok" /\ other.pc = "idle" /\ rsh.done >= 7) =>
              /\ rsh.failed \cap {5, 6, 7} = {}
              /\ Get(remote.dir, "backend") = Tree("main")
              /\ Get(remote.dir, uploaded) = Missing
              /\ Get(remote.dir, entry) = Missing

\* C18 witness: a run alone on the server, for the source /opt/app.py, whose
\* seven lines have run
C18_Witness ==
    /\ local_path = "/opt/app.py"
    /\ scp = "ok"
    /\ other.pc = "idle"
    /\ rsh.done >= 7
    /\ Get(remote.dir, "backend") = Tree("main")

\* the first invocation ran whole: it ended with SUCCESS, its copy succeeded and
\* each of its lines succeeded on the server
MainComplete ==
    /\ pc = "done"
    /\ result = "SUCCESS"
    /\ scp = "ok"
    /\ rsh.delivered = written
    /\ rsh.failed = {}

\* the second invocation ran whole
OtherComplete ==
    /\ other.pc = "done"
    /\ other.result = "SUCCESS"
    /\ other.scp = "ok"
    /\ other.failed = {}

\* the archives of archive/ on the server
Archives ==
    IF Get(remote.dir, "archive").kind = "dir"
    THEN Get(remote.dir, "archive").entries
    ELSE {}

\* C19: after two whole runs, one begun after the other had ended, both with the
\* same archive name, archive/ holds exactly one archive of that name; it is the
\* archive of the backend the earlier run installed, and no archive holds the
\* backend that was there before the earlier run.
C19_SameDayArchiveReplaced ==
    (/\ MainComplete
     /\ OtherComplete
     /\ other.order \in {"main_first", "other_first"}
     /\ archive_name = other.archive_name)
    => /\ Get(remote.dir, "archive").kind = "dir"
       /\ Cardinality({e \in Archives : e.name = archive_name}) = 1
       /\ Get(Archives, archive_name) =
              Tarball(IF other.order = "main_first" THEN "main" ELSE "other")
       /\ \A e \in Archives : e.c # Tarball("old")
       /\ Get(remote.dir, "backend") =
              Tree(IF other.order = "main_first" THEN "other" ELSE "main")

\* C19 witness: the second invocation ran whole after the first, on the same
\* date, and archive/ holds the archive of the first one's backend
C19_Witness ==
    /\ MainComplete
    /\ OtherComplete
    /\ other.order = "main_first"
    /\ archive_name = other.archive_name
    /\ Get(Archives, archive_name) = Tarball("main")

\* C20: the two invocations name the artifact alike on the server; and when both
\* ended with SUCCESS after copies that succeeded, the server directory is left
\* without backend/ only if the runs overlapped, a line 'tar jxf' of one of them
\* having failed. (That such a run exists is what the witness shows.)
C20_RaceOnSharedNames ==
    /\ compressed_file_name # "" => compressed_file_name = OtherFileName
    /\ (/\ pc = "done" /\ result = "SUCCESS" /\ scp = "ok"
        /\ other.pc = "done" /\ other.result = "SUCCESS" /\ other.scp = "ok"
        /\ Get(remote.dir, "backend") = Missing)
       => /\ other.order = "none"
          /\ 5 \in rsh.failed \cup other.failed

\* C20 witness: both invocations ended with SUCCESS, both copies succeeded, the
\* second installed its backend without a failure, the first removed it with its
\* step 4 and could not extract the artifact the second had already removed, and
\* the server directory has no backend/
C20_Witness ==
    /\ pc = "done" /\ result = "SUCCESS" /\ scp = "ok"
    /\ other.pc = "done" /\ other.result = "SUCCESS" /\ other.scp = "ok"
    /\ other.order = "none"
    /\ archive_name = other.archive_name
    /\ other.failed = {}
    /\ rsh.failed = {5, 6, 7}
    /\ Get(remote.dir, "backend") = Missing

=============================================================================
